---- MODULE Spec2Model ----
(***************************************************************************)
(* A model of etianen/js-types (src/lib/index.ts, the version that begins  *)
(* at line 284): runtime type descriptors, their membership test isTypeOf, *)
(* their names getName, and the casting functions fromJS and fromJSON.     *)
(*                                                                         *)
(* A program builds a descriptor bottom-up in the register `root`, may     *)
(* bind the variable `node` that referenceOf(() => node) resolves, and     *)
(* calls isTypeOf, fromJS or fromJSON; `outcome` holds the completion of   *)
(* the call in flight until the caller takes it.                           *)
(***************************************************************************)
EXTENDS Integers, Sequences, FiniteSets, TLC

VARIABLES root, node, outcome

vars == <<root, node, outcome>>

(***************************************************************************)
(* Bounds of the model.                                                    *)
(***************************************************************************)
\* Most combinators nested in a descriptor the program builds.
MaxDepth == 2
\* Most slots of an array value.
MaxLen == 2

(***************************************************************************)
(* JavaScript values.  A string holds a TLA+ string, a number the decimal  *)
(* text of the number (or "NaN"), an array a sequence of slots (a value or *)
(* Hole, the slot of a sparse array that holds no element), an object its  *)
(* prototype and its own enumerable entries.                               *)
(***************************************************************************)
Null == [t |-> "null"]

Undefined == [t |-> "undefined"]

Str(s) == [t |-> "string", s |-> s]

Num(n) == [t |-> "number", n |-> n]

Bool(b) == [t |-> "boolean", b |-> b]

Fn == [t |-> "function"]

Hole == [t |-> "hole"]

Arr(items) == [t |-> "array", items |-> items]

Obj(props) == [t |-> "object", proto |-> "Object.prototype", props |-> props]

\* An object whose prototype is not Object.prototype (a class instance).
Instance(props) == [t |-> "object", proto |-> "other", props |-> props]

\* The raw text handed to fromJSON: a string, kept as its JSON lexemes.
Text(lexemes) == [t |-> "string", lexemes |-> lexemes]

\* The completion of a call: it returns a value or throws an error.
Return(v) == [completion |-> "return", value |-> v]

Throw(e) == [completion |-> "throw", error |-> e]

Threw(r) == r.completion = "throw"

TypeError == [class |-> "TypeError"]

RangeError == [class |-> "RangeError"]

SyntaxError == [class |-> "SyntaxError"]

ValueError(message, value) == [class |-> "ValueError", message |-> message, value |-> value]

\* The typeof operator.
TypeOf(value) ==
    CASE value.t = "undefined" -> "undefined"
      [] value.t = "string" -> "string"
      [] value.t = "number" -> "number"
      [] value.t = "boolean" -> "boolean"
      [] value.t = "function" -> "function"
      [] OTHER -> "object"

IsArray(value) == value.t = "array"

\* The entries every plain object inherits from Object.prototype.
ObjectPrototypeKeys == {"toString"}

\* value[key] of an object: the own entry, else the inherited one, else undefined.
GetKey(value, key) ==
    IF key \in DOMAIN value.props THEN value.props[key]
    ELSE IF value.proto = "Object.prototype" /\ key \in ObjectPrototypeKeys THEN Fn
    ELSE Undefined

\* value[index] of an array, index counted from 0: a hole or an index past the end reads undefined.
GetIndex(value, index) ==
    IF index + 1 \in DOMAIN value.items /\ value.items[index + 1] # Hole
    THEN value.items[index + 1]
    ELSE Undefined

\* a || b and a && b on completions: b is evaluated only if a neither decides nor throws.
OrElse(a, b) == IF Threw(a) THEN a ELSE IF a.value THEN a ELSE b

AndAlso(a, b) == IF Threw(a) THEN a ELSE IF a.value THEN b ELSE a

\* Array.prototype.every / dict.every on the completions of the callback, in
\* order: the first one that is not true decides.
Every(results) ==
    LET bad == {i \in DOMAIN results : results[i] # Return(TRUE)}
    IN IF bad = {} THEN Return(TRUE)
       ELSE results[CHOOSE i \in bad : \A j \in bad : i <= j]

\* Object.getPrototypeOf(value), as far as isPlainObject tells prototypes apart
\* (the ES2015 reading, where a primitive has the prototype of its wrapper).
GetPrototypeOf(value) ==
    CASE value.t = "object" -> value.proto
      [] value.t = "array" -> "Array.prototype"
      [] value.t = "function" -> "Function.prototype"
      [] OTHER -> "wrapper prototype"

\* The own enumerable keys of an object, as dict.every walks them.
KeyOrder == <<"a", "b", "toString">>

OwnKeys(props) == SelectSeq(KeyOrder, LAMBDA k : k \in DOMAIN props)

(***************************************************************************)
(* Descriptors.  The resolver of a reference is the closure () => node: it *)
(* reads the variable `node` each time it is called.                       *)
(***************************************************************************)
PrimitiveType(name) == [kind |-> "PrimitiveType", name |-> name]

stringType == PrimitiveType("string")

numberType == PrimitiveType("number")

booleanType == PrimitiveType("boolean")

anyType == [kind |-> "anyType"]

\* A descriptor of the caller's own: any object with the two methods of Type.
\* Here isTypeOf and getName end as the caller wrote them, whatever the value.
CustomType(accepts, name) == [kind |-> "Type", accepts |-> accepts, name |-> name]

referenceOf == [kind |-> "ReferenceOfType", getType |-> "() => node"]

intersectionOf(a, b) == [kind |-> "IntersectionOfType", a |-> a, b |-> b]

unionOf(a, b) == [kind |-> "UnionOfType", a |-> a, b |-> b]

nullableOf(type) == [kind |-> "NullableOfType", type |-> type]

optionalOf(type) == [kind |-> "OptionalOfType", type |-> type]

arrayOf(valueType) == [kind |-> "ArrayOfType", valueType |-> valueType]

objectOf(valueType) == [kind |-> "ObjectOfType", valueType |-> valueType]

\* types: the sequence of the descriptors of the positions
tupleOf(types) == [kind |-> "TupleOfType", types |-> types]

\* types: the declared entries [key, type], in declaration order
shapeOf(types) == [kind |-> "ShapeOfType", entries |-> types]

Entry(key, type) == [key |-> key, type |-> type]

(***************************************************************************)
(* isTypeOf.  `resolved` tells that the resolver has already been called   *)
(* on this very value further up the stack: calling it again re-enters the *)
(* same call, and the recursion ends only when the stack overflows.        *)
(***************************************************************************)
RECURSIVE IsTypeOf(_, _, _)

\* A slip: the resolver called once, when the reference is constructed, at
\* which time the variable it reads is not yet assigned.
ReferenceOfType_getType_AtConstruction == Undefined

ReferenceOfType_getType == node

\* A slip: this.isTypeOf(value), the reference forwarding to itself.
ReferenceOfType_isTypeOf_Self(type, value, resolved) ==
    Throw(RangeError)

ReferenceOfType_isTypeOf(type, value, resolved) ==
    IF ReferenceOfType_getType = Undefined THEN Throw(TypeError)
    ELSE IF resolved THEN Throw(RangeError)
    ELSE IsTypeOf(ReferenceOfType_getType, value, TRUE)

\* A slip: && where || is meant.
IntersectionOfType_isTypeOf_Both(type, value, resolved) ==
    AndAlso(IsTypeOf(type.a, value, resolved), IsTypeOf(type.b, value, resolved))

\* A slip: only the first child is asked.
IntersectionOfType_isTypeOf_First(type, value, resolved) == IsTypeOf(type.a, value, resolved)

IntersectionOfType_isTypeOf(type, value, resolved) ==
    OrElse(IsTypeOf(type.a, value, resolved), IsTypeOf(type.b, value, resolved))

\* A slip: || where && is meant.
UnionOfType_isTypeOf_Either(type, value, resolved) ==
    OrElse(IsTypeOf(type.a, value, resolved), IsTypeOf(type.b, value, resolved))

UnionOfType_isTypeOf(type, value, resolved) ==
    AndAlso(IsTypeOf(type.a, value, resolved), IsTypeOf(type.b, value, resolved))

\* A slip: value == null, which undefined satisfies too.
NullableOfType_isTypeOf_Loose(type, value, resolved) ==
    OrElse(Return(value \in {Null, Undefined}), IsTypeOf(type.type, value, resolved))

NullableOfType_isTypeOf(type, value, resolved) ==
    OrElse(Return(value = Null), IsTypeOf(type.type, value, resolved))

\* A slip: value == undefined, which null satisfies too.
OptionalOfType_isTypeOf_Loose(type, value, resolved) ==
    OrElse(Return(value \in {Null, Undefined}), IsTypeOf(type.type, value, resolved))

OptionalOfType_isTypeOf(type, value, resolved) ==
    OrElse(Return(value = Undefined), IsTypeOf(type.type, value, resolved))

\* A slip: the test for null left out.
anyType_isTypeOf_AllowsNull(type, value, resolved) ==
    Return(value # Undefined)

\* A slip: a truthiness test, which "", 0, NaN and false fail.
anyType_isTypeOf_Truthy(type, value, resolved) ==
    Return(value \notin {Null, Undefined, Str(""), Num("0"), Num("NaN"), Bool(FALSE)})

anyType_isTypeOf(type, value, resolved) ==
    Return(value # Null /\ value # Undefined)

\* A slip: a truthiness test next to typeof, which "", 0 and false fail.
PrimitiveType_isTypeOf_Truthy(type, value, resolved) ==
    Return(TypeOf(value) = type.name /\ value \notin {Str(""), Num("0"), Bool(FALSE)})

PrimitiveType_isTypeOf(type, value, resolved) ==
    Return(TypeOf(value) = type.name)

\* A slip: value.some(...) where value.every(...) is meant.
ArrayOfType_isTypeOf_Some(type, value, resolved) ==
    AndAlso(Return(IsArray(value)),
            Return(\E i \in {j \in DOMAIN value.items : value.items[j] # Hole} :
                      IsTypeOf(type.valueType, value.items[i], FALSE) = Return(TRUE)))

\* value.every(...) calls the callback for the slots that hold an element only.
ArrayOfType_isTypeOf(type, value, resolved) ==
    AndAlso(Return(IsArray(value)),
            Every([i \in {j \in DOMAIN value.items : value.items[j] # Hole} |->
                      IsTypeOf(type.valueType, value.items[i], FALSE)]))

\* A slip: typeof value === "object" where the prototype is to be compared.
isPlainObject_AnyObject(value) ==
    value # Null /\ value # Undefined /\ value.t = "object"

isPlainObject(value) ==
    value # Null /\ value # Undefined /\ GetPrototypeOf(value) = "Object.prototype"

ObjectOfType_isTypeOf(type, value, resolved) ==
    AndAlso(Return(isPlainObject(value)),
            Every([i \in DOMAIN OwnKeys(value.props) |->
                      IsTypeOf(type.valueType, value.props[OwnKeys(value.props)[i]], FALSE)]))

\* A slip: the length of the array compared with the declared arity.
TupleOfType_isTypeOf_Exact(type, value, resolved) ==
    AndAlso(Return(IsArray(value)),
            AndAlso(Return(Len(value.items) = Len(type.types)),
                    Every([i \in DOMAIN type.types |->
                              IsTypeOf(type.types[i], GetIndex(value, i - 1), FALSE)])))

TupleOfType_isTypeOf(type, value, resolved) ==
    AndAlso(Return(IsArray(value)),
            Every([i \in DOMAIN type.types |->
                      IsTypeOf(type.types[i], GetIndex(value, i - 1), FALSE)]))

\* A slip: the test isPlainObject(value) left out, so that value[key] is read
\* of whatever is given; reading a key of null or undefined is a TypeError.
ShapeOfType_isTypeOf_NoGuard(type, value, resolved) ==
    IF value \in {Null, Undefined} THEN Throw(TypeError)
    ELSE Every([i \in DOMAIN type.entries |->
                   IsTypeOf(type.entries[i].type,
                            IF value.t = "object" THEN GetKey(value, type.entries[i].key)
                            ELSE Undefined,
                            FALSE)])

ShapeOfType_isTypeOf(type, value, resolved) ==
    AndAlso(Return(isPlainObject(value)),
            Every([i \in DOMAIN type.entries |->
                      IsTypeOf(type.entries[i].type, GetKey(value, type.entries[i].key), FALSE)]))

Type_isTypeOf(type, value, resolved) == type.accepts

IsTypeOf(type, value, resolved) ==
    CASE type.kind = "ReferenceOfType" -> ReferenceOfType_isTypeOf(type, value, resolved)
      [] type.kind = "IntersectionOfType" -> IntersectionOfType_isTypeOf(type, value, resolved)
      [] type.kind = "UnionOfType" -> UnionOfType_isTypeOf(type, value, resolved)
      [] type.kind = "NullableOfType" -> NullableOfType_isTypeOf(type, value, resolved)
      [] type.kind = "OptionalOfType" -> OptionalOfType_isTypeOf(type, value, resolved)
      [] type.kind = "anyType" -> anyType_isTypeOf(type, value, resolved)
      [] type.kind = "PrimitiveType" -> PrimitiveType_isTypeOf(type, value, resolved)
      [] type.kind = "ArrayOfType" -> ArrayOfType_isTypeOf(type, value, resolved)
      [] type.kind = "ObjectOfType" -> ObjectOfType_isTypeOf(type, value, resolved)
      [] type.kind = "TupleOfType" -> TupleOfType_isTypeOf(type, value, resolved)
      [] type.kind = "ShapeOfType" -> ShapeOfType_isTypeOf(type, value, resolved)
      [] type.kind = "Type" -> Type_isTypeOf(type, value, resolved)

\* type.isTypeOf(value), called from outside.
isTypeOf(type, value) == IsTypeOf(type, value, FALSE)

(***************************************************************************)
(* getName.  A template literal evaluates its parts from left to right;    *)
(* the first part that throws ends it.                                     *)
(***************************************************************************)
RECURSIVE Template(_)

Template(parts) ==
    IF parts = <<>> THEN Return("")
    ELSE IF Threw(Head(parts)) THEN Head(parts)
    ELSE LET rest == Template(Tail(parts))
         IN IF Threw(rest) THEN rest ELSE Return(Head(parts).value \o rest.value)

\* names.join(", ")
RECURSIVE Join(_)

Join(names) ==
    IF names = <<>> THEN <<>>
    ELSE IF Len(names) = 1 THEN <<Head(names)>>
    ELSE <<Head(names), Return(", ")>> \o Join(Tail(names))

RECURSIVE GetName(_, _)

ReferenceOfType_getName(type, resolved) ==
    IF ReferenceOfType_getType = Undefined THEN Throw(TypeError)
    ELSE IF resolved THEN Throw(RangeError)
    ELSE GetName(ReferenceOfType_getType, TRUE)

IntersectionOfType_getName(type, resolved) ==
    Template(<<GetName(type.a, resolved), Return(" | "), GetName(type.b, resolved)>>)

UnionOfType_getName(type, resolved) ==
    Template(<<GetName(type.a, resolved), Return(" & "), GetName(type.b, resolved)>>)

\* A slip: a suffix of its own, as optionalOf has.
NullableOfType_getName_Suffix(type, resolved) ==
    Template(<<GetName(type.type, resolved), Return("?")>>)

NullableOfType_getName(type, resolved) == GetName(type.type, resolved)

OptionalOfType_getName(type, resolved) ==
    Template(<<GetName(type.type, resolved), Return("?")>>)

anyType_getName(type, resolved) == Return("any")

PrimitiveType_getName(type, resolved) == Return(type.name)

ArrayOfType_getName(type, resolved) ==
    Template(<<Return("Array<"), GetName(type.valueType, resolved), Return(">")>>)

ObjectOfType_getName(type, resolved) ==
    Template(<<Return("Object<"), GetName(type.valueType, resolved), Return(">")>>)

TupleOfType_getName(type, resolved) ==
    Template(<<Return("[")>>
             \o Join([i \in DOMAIN type.types |-> GetName(type.types[i], resolved)])
             \o <<Return("]")>>)

formatEntry(type, key, resolved) ==
    Template(<<Return(key), Return(": "), GetName(type, resolved)>>)

ShapeOfType_getName(type, resolved) ==
    Template(<<Return("{")>>
             \o Join([i \in DOMAIN type.entries |->
                         formatEntry(type.entries[i].type, type.entries[i].key, resolved)])
             \o <<Return("}")>>)

Type_getName(type, resolved) == type.name

GetName(type, resolved) ==
    CASE type.kind = "ReferenceOfType" -> ReferenceOfType_getName(type, resolved)
      [] type.kind = "IntersectionOfType" -> IntersectionOfType_getName(type, resolved)
      [] type.kind = "UnionOfType" -> UnionOfType_getName(type, resolved)
      [] type.kind = "NullableOfType" -> NullableOfType_getName(type, resolved)
      [] type.kind = "OptionalOfType" -> OptionalOfType_getName(type, resolved)
      [] type.kind = "anyType" -> anyType_getName(type, resolved)
      [] type.kind = "PrimitiveType" -> PrimitiveType_getName(type, resolved)
      [] type.kind = "ArrayOfType" -> ArrayOfType_getName(type, resolved)
      [] type.kind = "ObjectOfType" -> ObjectOfType_getName(type, resolved)
      [] type.kind = "TupleOfType" -> TupleOfType_getName(type, resolved)
      [] type.kind = "ShapeOfType" -> ShapeOfType_getName(type, resolved)
      [] type.kind = "Type" -> Type_getName(type, resolved)

\* type.getName(), called from outside.
getName(type) == GetName(type, FALSE)

(***************************************************************************)
(* equals(a, b), for two values the descriptor accepts.  `same` tells that *)
(* a and b are one and the same value; two values that are not the same    *)
(* share no array, object or function.                                     *)
(***************************************************************************)
\* a === b
StrictEquals(a, b, same) ==
    IF a.t \in {"array", "object", "function"} THEN same /\ a = b
    ELSE a = b /\ a # Num("NaN")

RECURSIVE Equals(_, _, _, _, _)

ReferenceOfType_equals(type, a, b, same, resolved) ==
    IF ReferenceOfType_getType = Undefined THEN Throw(TypeError)
    ELSE IF resolved THEN Throw(RangeError)
    ELSE Equals(ReferenceOfType_getType, a, b, same, TRUE)

\* A slip: always the second child is asked.
IntersectionOfType_equals_Second(type, a, b, same, resolved) ==
    Equals(type.b, a, b, same, resolved)

\* The first child that accepts both values decides.
IntersectionOfType_equals(type, a, b, same, resolved) ==
    LET first == AndAlso(IsTypeOf(type.a, a, resolved), IsTypeOf(type.a, b, resolved))
        second == AndAlso(IsTypeOf(type.b, a, resolved), IsTypeOf(type.b, b, resolved))
    IN IF Threw(first) THEN first
       ELSE IF first.value THEN Equals(type.a, a, b, same, resolved)
       ELSE IF Threw(second) THEN second
       ELSE IF second.value THEN Equals(type.b, a, b, same, resolved)
       ELSE Return(FALSE)

UnionOfType_equals(type, a, b, same, resolved) ==
    AndAlso(Equals(type.a, a, b, same, resolved), Equals(type.b, a, b, same, resolved))

NullableOfType_equals(type, a, b, same, resolved) ==
    IF a = Null /\ b = Null THEN Return(TRUE) ELSE Equals(type.type, a, b, same, resolved)

OptionalOfType_equals(type, a, b, same, resolved) ==
    IF a = Undefined /\ b = Undefined THEN Return(TRUE)
    ELSE Equals(type.type, a, b, same, resolved)

anyType_equals(type, a, b, same, resolved) == Return(StrictEquals(a, b, same))

PrimitiveType_equals(type, a, b, same, resolved) == Return(StrictEquals(a, b, same))

\* A slip: the lengths are not compared, only the elements of a.
ArrayOfType_equals_NoLength(type, a, b, same, resolved) ==
    IF ~IsArray(a) \/ ~IsArray(b) THEN Throw(TypeError)
    ELSE Every([i \in DOMAIN a.items |->
                   Equals(type.valueType, GetIndex(a, i - 1), GetIndex(b, i - 1), same, FALSE)])

\* Asked of what is not an array, it fails on reading the length.
ArrayOfType_equals(type, a, b, same, resolved) ==
    IF ~IsArray(a) \/ ~IsArray(b) THEN Throw(TypeError)
    ELSE AndAlso(Return(Len(a.items) = Len(b.items)),
                 Every([i \in DOMAIN a.items |->
                           Equals(type.valueType, GetIndex(a, i - 1), GetIndex(b, i - 1),
                                  same, FALSE)]))

ObjectOfType_equals(type, a, b, same, resolved) ==
    IF ~isPlainObject(a) \/ ~isPlainObject(b) THEN Throw(TypeError)
    ELSE LET keys == OwnKeys(a.props)
         IN AndAlso(Return(Len(keys) = Len(OwnKeys(b.props))),
                    Every([i \in DOMAIN keys |->
                              Equals(type.valueType, a.props[keys[i]], GetKey(b, keys[i]),
                                     same, FALSE)]))

TupleOfType_equals(type, a, b, same, resolved) ==
    IF ~IsArray(a) \/ ~IsArray(b) THEN Throw(TypeError)
    ELSE Every([i \in DOMAIN type.types |->
                   Equals(type.types[i], GetIndex(a, i - 1), GetIndex(b, i - 1), same, FALSE)])

ShapeOfType_equals(type, a, b, same, resolved) ==
    IF ~isPlainObject(a) \/ ~isPlainObject(b) THEN Throw(TypeError)
    ELSE Every([i \in DOMAIN type.entries |->
                   Equals(type.entries[i].type, GetKey(a, type.entries[i].key),
                          GetKey(b, type.entries[i].key), same, FALSE)])

Equals(type, a, b, same, resolved) ==
    CASE type.kind = "ReferenceOfType" -> ReferenceOfType_equals(type, a, b, same, resolved)
      [] type.kind = "IntersectionOfType" -> IntersectionOfType_equals(type, a, b, same, resolved)
      [] type.kind = "UnionOfType" -> UnionOfType_equals(type, a, b, same, resolved)
      [] type.kind = "NullableOfType" -> NullableOfType_equals(type, a, b, same, resolved)
      [] type.kind = "OptionalOfType" -> OptionalOfType_equals(type, a, b, same, resolved)
      [] type.kind = "anyType" -> anyType_equals(type, a, b, same, resolved)
      [] type.kind = "PrimitiveType" -> PrimitiveType_equals(type, a, b, same, resolved)
      [] type.kind = "ArrayOfType" -> ArrayOfType_equals(type, a, b, same, resolved)
      [] type.kind = "ObjectOfType" -> ObjectOfType_equals(type, a, b, same, resolved)
      [] type.kind = "TupleOfType" -> TupleOfType_equals(type, a, b, same, resolved)
      [] type.kind = "ShapeOfType" -> ShapeOfType_equals(type, a, b, same, resolved)

\* type.equals(a, b), called from outside.
equals(type, a, b, same) == Equals(type, a, b, same, FALSE)

(***************************************************************************)
(* JSON, on lexemes: a text is the sequence of its JSON lexemes.           *)
(***************************************************************************)
Strings == {"", "a", "b", "toString"}

Quote(s) == "\"" \o s \o "\""

StringLexemes == {Quote(s) : s \in Strings}

Unquote(lexeme) == CHOOSE s \in Strings : Quote(s) = lexeme

NumberLexemes == {"0", "1"}

Failed == [ok |-> FALSE]

Parsed(value, rest) == [ok |-> TRUE, value |-> value, rest |-> rest]

RECURSIVE ParseValue(_), ParseElements(_, _), ParseMembers(_, _)

\* The value at the head of the lexemes, and the lexemes that follow it.
ParseValue(lexemes) ==
    IF lexemes = <<>> THEN Failed
    ELSE LET head == Head(lexemes)
             rest == Tail(lexemes)
         IN CASE head = "null" -> Parsed(Null, rest)
              [] head = "true" -> Parsed(Bool(TRUE), rest)
              [] head = "false" -> Parsed(Bool(FALSE), rest)
              [] head \in NumberLexemes -> Parsed(Num(head), rest)
              [] head \in StringLexemes -> Parsed(Str(Unquote(head)), rest)
              [] head = "[" ->
                    IF rest # <<>> /\ Head(rest) = "]"
                    THEN Parsed(Arr(<<>>), Tail(rest))
                    ELSE ParseElements(rest, <<>>)
              [] head = "{" ->
                    IF rest # <<>> /\ Head(rest) = "}"
                    THEN Parsed(Obj(<<>>), Tail(rest))
                    ELSE ParseMembers(rest, <<>>)
              [] OTHER -> Failed

\* value (, value)* ]
ParseElements(lexemes, items) ==
    LET element == ParseValue(lexemes)
    IN IF ~element.ok \/ element.rest = <<>> THEN Failed
       ELSE LET next == Head(element.rest)
                rest == Tail(element.rest)
                all == Append(items, element.value)
            IN CASE next = "," -> ParseElements(rest, all)
                 [] next = "]" -> Parsed(Arr(all), rest)
                 [] OTHER -> Failed

\* string : value (, string : value)* }   A repeated key keeps its last value.
ParseMembers(lexemes, props) ==
    IF Len(lexemes) < 2 \/ Head(lexemes) \notin StringLexemes \/ lexemes[2] # ":" THEN Failed
    ELSE LET key == Unquote(Head(lexemes))
             member == ParseValue(Tail(Tail(lexemes)))
         IN IF ~member.ok \/ member.rest = <<>> THEN Failed
            ELSE LET next == Head(member.rest)
                     rest == Tail(member.rest)
                     all == [k \in DOMAIN props \cup {key} |->
                                IF k = key THEN member.value ELSE props[k]]
                 IN CASE next = "," -> ParseMembers(rest, all)
                      [] next = "}" -> Parsed(Obj(all), rest)
                      [] OTHER -> Failed

\* JSON.parse(text); an argument that is undefined is read as the text "undefined".
JSONparse(text) ==
    LET parsed == ParseValue(IF text = Undefined THEN <<"undefined">> ELSE text.lexemes)
    IN IF parsed.ok /\ parsed.rest = <<>> THEN Return(parsed.value) ELSE Throw(SyntaxError)

(***************************************************************************)
(* Casting.  A cast also tells which methods of the descriptor it called.  *)
(***************************************************************************)
Calls(calls, r) ==
    IF Threw(r)
    THEN [completion |-> "throw", error |-> r.error, calls |-> calls]
    ELSE [completion |-> "return", value |-> r.value, calls |-> calls]

\* A slip: a copy is returned, a plain object with the own entries of the
\* value or an array with every slot filled.
fromJS_Copy(value, type) ==
    LET member == isTypeOf(type, value)
        name == getName(type)
        copy == IF value.t = "object" THEN Obj(value.props)
                ELSE IF value.t = "array"
                     THEN Arr([i \in DOMAIN value.items |-> GetIndex(value, i - 1)])
                ELSE value
    IN IF Threw(member) THEN Calls(<<"isTypeOf">>, member)
       ELSE IF member.value THEN Calls(<<"isTypeOf">>, Return(copy))
       ELSE IF Threw(name) THEN Calls(<<"isTypeOf", "getName">>, name)
       ELSE Calls(<<"isTypeOf", "getName">>,
                  Throw(ValueError("Expected " \o name.value, value)))

fromJS(value, type) ==
    LET member == isTypeOf(type, value)
        name == getName(type)
    IN IF Threw(member) THEN Calls(<<"isTypeOf">>, member)
       ELSE IF member.value THEN Calls(<<"isTypeOf">>, Return(value))
       ELSE IF Threw(name) THEN Calls(<<"isTypeOf", "getName">>, name)
       ELSE Calls(<<"isTypeOf", "getName">>,
                  Throw(ValueError("Expected " \o name.value, value)))

\* A slip: no catch, the SyntaxError of JSON.parse reaches the caller.
fromJSON_NoCatch(value, type) ==
    LET parsed == JSONparse(value)
    IN IF Threw(parsed) THEN Calls(<<>>, parsed) ELSE fromJS(parsed.value, type)

\* A slip: the catch reports every error as invalid JSON.
fromJSON_CatchAll(value, type) ==
    LET parsed == JSONparse(value)
        tried == IF Threw(parsed) THEN Calls(<<>>, parsed) ELSE fromJS(parsed.value, type)
    IN IF Threw(tried)
       THEN Calls(tried.calls, Throw(ValueError("Invalid JSON", value)))
       ELSE tried

\* A slip: the text itself is cast, JSON.parse left out.
fromJSON_Raw(value, type) == fromJS(value, type)

fromJSON(value, type) ==
    LET parsed == JSONparse(value)
        tried == IF Threw(parsed) THEN Calls(<<>>, parsed) ELSE fromJS(parsed.value, type)
    IN IF Threw(tried) /\ tried.error.class = "SyntaxError"
       THEN Calls(tried.calls, Throw(ValueError("Invalid JSON", value)))
       ELSE tried

(***************************************************************************)
(* The inputs of the model.                                                *)
(***************************************************************************)
SeqsUpTo(S, n) == UNION {[1..k -> S] : k \in 0..n}

Atoms ==
    {Null, Undefined, Str(""), Str("a"), Num("0"), Num("1"), Num("NaN"),
     Bool(TRUE), Bool(FALSE), Fn}

\* What a slot of an array holds; Hole is the slot that holds no element.
Slots == {Hole, Null, Str("a")}

Arrays == {Arr(items) : items \in SeqsUpTo(Slots, MaxLen)}

Keys == {"a", "b"}

Elements == {Null, Undefined, Str("a")}

Objects == {Obj(props) : props \in UNION {[D -> Elements] : D \in SUBSET Keys}}

\* The trees of the self-referential shape {a: number, b: Array<...>}.
Tree0 == Obj([a |-> Num("1"), b |-> Arr(<<>>)])

Tree1 == Obj([a |-> Num("1"), b |-> Arr(<<Tree0>>)])

Tree2 == Obj([a |-> Num("1"), b |-> Arr(<<Tree1>>)])

\* Further values: nested containers, near misses of the trees, arrays that
\* hold undefined or a number, an array longer than MaxLen, a class instance.
Others ==
    {Tree0, Tree1, Tree2,
     Obj([a |-> Num("1"), b |-> Arr(<<Obj([a |-> Str("a"), b |-> Arr(<<>>)])>>)]),
     Obj([a |-> Num("1"), b |-> Arr(<<Null>>)]),
     Obj([a |-> Num("1"), b |-> Arr(<<Str("a")>>)]),
     Obj([a |-> Num("1"), b |-> Obj([b |-> Str("a")])]),
     Obj([a |-> Num("1"), toString |-> Str("a")]),
     Arr(<<Arr(<<Str("a")>>), Arr(<<>>)>>),
     Arr(<<Arr(<<Null>>)>>),
     Arr(<<Undefined>>),
     Arr(<<Num("1")>>),
     Arr(<<Num("1"), Str("a")>>),
     Arr(<<Num("1"), Undefined>>),
     Arr(<<Num("1"), Num("1")>>),
     Arr([i \in 1..(MaxLen + 1) |-> Num("1")]),
     Instance([a |-> Str("a")])}

Values == Atoms \cup Arrays \cup Objects \cup Others

\* The values handed to fromJS.
CastValues == Atoms \cup Others

\* JSON texts: the well-formed texts of some values, every prefix of them,
\* and some texts with a lexeme too many.
Sources ==
    {Null, Str("a"), Num("1"), Bool(TRUE), Bool(FALSE),
     Arr(<<>>), Arr(<<Str("a")>>), Arr(<<Num("1"), Str("a")>>), Arr(<<Null>>),
     Obj(<<>>), Obj([a |-> Str("a")]), Obj([a |-> Num("1"), b |-> Str("a")]),
     Tree1}

RECURSIVE Serialize(_)

\* No text stands for undefined or a function.
Unserializable(value) == value.t \in {"undefined", "function", "hole"}

\* The lexemes of the JSON text of a value: NaN is written null, as is a slot
\* of an array that holds undefined, a function or nothing, and an entry of an
\* object that holds undefined or a function is left out.
Serialize(value) ==
    CASE value.t = "null" -> <<"null">>
      [] Unserializable(value) -> <<"null">>
      [] value.t = "boolean" -> IF value.b THEN <<"true">> ELSE <<"false">>
      [] value.t = "number" -> IF value.n = "NaN" THEN <<"null">> ELSE <<value.n>>
      [] value.t = "string" -> <<Quote(value.s)>>
      [] value.t = "array" ->
            LET RECURSIVE Items(_)
                Items(i) ==
                    IF i > Len(value.items) THEN <<>>
                    ELSE (IF i > 1 THEN <<",">> ELSE <<>>)
                         \o Serialize(value.items[i]) \o Items(i + 1)
            IN <<"[">> \o Items(1) \o <<"]">>
      [] value.t = "object" ->
            LET keys == SelectSeq(OwnKeys(value.props),
                                  LAMBDA k : ~Unserializable(value.props[k]))
                RECURSIVE Members(_)
                Members(i) ==
                    IF i > Len(keys) THEN <<>>
                    ELSE (IF i > 1 THEN <<",">> ELSE <<>>)
                         \o <<Quote(keys[i]), ":">> \o Serialize(value.props[keys[i]])
                         \o Members(i + 1)
            IN <<"{">> \o Members(1) \o <<"}">>

\* JSON.stringify(value): the text, or undefined where there is none.
JSONstringify(value) ==
    IF Unserializable(value) THEN Undefined ELSE Text(Serialize(value))

(***************************************************************************)
(* The description of a ValueError, a string.                              *)
(***************************************************************************)
RECURSIVE Concat(_)

\* The string made of the pieces, in order.
Concat(pieces) == IF pieces = <<>> THEN "" ELSE Head(pieces) \o Concat(Tail(pieces))

\* A string inside a template: undefined reads "undefined".
TemplateString(value) == IF value = Undefined THEN "undefined" ELSE Concat(value.lexemes)

\* JSON.stringify of a raw text: the text in quotes, its own quotes escaped.
StringifyText(text) ==
    LET Escape(lexeme) ==
            IF lexeme \in StringLexemes THEN "\\\"" \o Unquote(lexeme) \o "\\\"" ELSE lexeme
    IN Quote(Concat([i \in DOMAIN text.lexemes |-> Escape(text.lexemes[i])]))

\* ${JSON.stringify(this.value)}
Received(value) ==
    IF "lexemes" \in DOMAIN value THEN StringifyText(value) ELSE TemplateString(JSONstringify(value))

\* BaseError is not part of the repository.  It extends Error, and its
\* description is that of Error.prototype.toString: the name of the error,
\* ": " and the message, or the message alone when the name is empty.
ErrorNames == {"", "Error", "ValueError"}

BaseError_toString(error, name) ==
    IF name = "" THEN error.message ELSE name \o ": " \o error.message

\* A slip: the received value is left out.
ValueError_toString_Message(error, name) == BaseError_toString(error, name)

ValueError_toString(error, name) ==
    BaseError_toString(error, name) \o " (received " \o Received(error.value) \o ")"

\* The descriptors a caller writes: isTypeOf answers or throws, getName too.
CustomTypes ==
    {CustomType(accepts, name) :
        accepts \in {Return(TRUE), Return(FALSE), Throw(SyntaxError), Throw(TypeError)},
        name \in {Return("custom"), Throw(SyntaxError)}}

Prefixes(s) == {SubSeq(s, 1, n) : n \in 0..Len(s)}

Texts ==
    {Text(s) : s \in UNION {Prefixes(Serialize(v)) : v \in Sources}}
        \cup {Text(<<"]">>), Text(<<"1", "1">>), Text(<<"[", "1", ",", "]">>),
               Text(<<"{", Quote("a"), ":", "1", ",", "}">>),
               Text(<<"{", Quote("a"), ":", "1", ",", Quote("a"), ":", "null", "}">>)}

LeafTypes == {anyType, stringType, numberType, booleanType, referenceOf}

\* The second operand of intersectionOf (as in string | number), and of
\* unionOf (which merges shapes).
IntersectionOperands == {numberType}

UnionOperands == {shapeOf(<<Entry("b", stringType)>>)}

\* The keys a shape declares next to "a".
ShapeKeys == {"b", "toString"}

Max(S) == CHOOSE x \in S : \A y \in S : y <= x

RECURSIVE Depth(_)

Depth(type) ==
    CASE type.kind \in {"NullableOfType", "OptionalOfType"} -> 1 + Depth(type.type)
      [] type.kind \in {"ArrayOfType", "ObjectOfType"} -> 1 + Depth(type.valueType)
      [] type.kind \in {"IntersectionOfType", "UnionOfType"} ->
            1 + Max({Depth(type.a), Depth(type.b)})
      [] type.kind = "TupleOfType" ->
            1 + Max({0} \cup {Depth(type.types[i]) : i \in DOMAIN type.types})
      [] type.kind = "ShapeOfType" ->
            1 + Max({0} \cup {Depth(type.entries[i].type) : i \in DOMAIN type.entries})
      [] OTHER -> 0

(***************************************************************************)
(* The program.                                                            *)
(***************************************************************************)
None == [op |-> "none"]

Init ==
    /\ root \in LeafTypes
    /\ node = Undefined
    /\ outcome = None

Building == outcome = None /\ node = Undefined /\ Depth(root) < MaxDepth

NullableOf ==
    /\ Building
    /\ root' = nullableOf(root)
    /\ UNCHANGED <<node, outcome>>

OptionalOf ==
    /\ Building
    /\ root' = optionalOf(root)
    /\ UNCHANGED <<node, outcome>>

ArrayOf ==
    /\ Building
    /\ root' = arrayOf(root)
    /\ UNCHANGED <<node, outcome>>

ObjectOf ==
    /\ Building
    /\ root' = objectOf(root)
    /\ UNCHANGED <<node, outcome>>

IntersectionOf ==
    /\ Building
    /\ \E b \in IntersectionOperands : root' = intersectionOf(root, b)
    /\ UNCHANGED <<node, outcome>>

UnionOf ==
    /\ Building
    /\ \E b \in UnionOperands : root' = unionOf(root, b)
    /\ UNCHANGED <<node, outcome>>

TupleOf ==
    /\ Building
    /\ root' = tupleOf(<<numberType, root>>)
    /\ UNCHANGED <<node, outcome>>

ShapeOf ==
    /\ Building
    /\ \E key \in ShapeKeys : root' = shapeOf(<<Entry("a", numberType), Entry(key, root)>>)
    /\ UNCHANGED <<node, outcome>>

\* const node = <the descriptor built>; the program goes on with a reference to it.
Assign ==
    /\ outcome = None
    /\ node = Undefined
    /\ node' = root
    /\ root' = referenceOf
    /\ UNCHANGED outcome

CallIsTypeOf ==
    /\ outcome = None
    /\ \E value \in Values :
          outcome' = [op |-> "isTypeOf", value |-> value, result |-> isTypeOf(root, value)]
    /\ UNCHANGED <<root, node>>

CallGetName ==
    /\ outcome = None
    /\ outcome' = [op |-> "getName", result |-> getName(root)]
    /\ UNCHANGED <<root, node>>

CallFromJS ==
    /\ outcome = None
    /\ \E value \in CastValues :
          outcome' = [op |-> "fromJS", value |-> value, result |-> fromJS(value, root)]
    /\ UNCHANGED <<root, node>>

CallFromJSON ==
    /\ outcome = None
    /\ \E value \in Texts :
          outcome' = [op |-> "fromJSON", value |-> value, result |-> fromJSON(value, root)]
    /\ UNCHANGED <<root, node>>

\* fromJSON(JSON.stringify(value), type), for a value of the type
CallRoundTrip ==
    /\ outcome = None
    /\ \E value \in Values :
          /\ isTypeOf(root, value) = Return(TRUE)
          /\ outcome' = [op |-> "roundTrip", value |-> value, text |-> JSONstringify(value),
                         result |-> fromJSON(JSONstringify(value), root)]
    /\ UNCHANGED <<root, node>>

\* The values compared with equals.
EqualsValues ==
    {Null, Undefined, Str(""), Str("a"), Num("1"), Num("NaN"),
     Arr(<<>>), Arr(<<Str("a")>>), Arr(<<Str("")>>), Arr(<<Str("a"), Str("a")>>),
     Obj(<<>>), Obj([a |-> Num("1"), b |-> Str("a")]), Obj([a |-> Num("1"), b |-> Str("")])}

\* type.equals(a, b), for two values of the type
CallEquals ==
    /\ outcome = None
    /\ \E a \in EqualsValues, b \in EqualsValues, same \in BOOLEAN :
          /\ same => a = b
          /\ isTypeOf(root, a) = Return(TRUE)
          /\ isTypeOf(root, b) = Return(TRUE)
          /\ outcome' = [op |-> "equals", a |-> a, b |-> b, same |-> same,
                         result |-> equals(root, a, b, same)]
    /\ UNCHANGED <<root, node>>

\* error.toString(), for the ValueError a cast has thrown
CallToString ==
    /\ outcome.op \in {"fromJS", "fromJSON"}
    /\ Threw(outcome.result)
    /\ outcome.result.error.class = "ValueError"
    /\ \E name \in ErrorNames :
          outcome' = [op |-> "toString", error |-> outcome.result.error, name |-> name,
                      result |-> ValueError_toString(outcome.result.error, name)]
    /\ UNCHANGED <<root, node>>

\* The caller takes the completion of the call.
Take ==
    /\ outcome # None
    /\ outcome' = None
    /\ UNCHANGED <<root, node>>

Next ==
    \/ NullableOf
    \/ OptionalOf
    \/ ArrayOf
    \/ ObjectOf
    \/ IntersectionOf
    \/ UnionOf
    \/ TupleOf
    \/ ShapeOf
    \/ Assign
    \/ CallIsTypeOf
    \/ CallGetName
    \/ CallFromJS
    \/ CallFromJSON
    \/ CallRoundTrip
    \/ Take

Spec == Init /\ [][Next]_vars

\* The programs that cast with descriptors of their own and read the errors.
InitErrors ==
    /\ root \in LeafTypes \cup CustomTypes
    /\ node = Undefined
    /\ outcome = None

NextErrors ==
    \/ NullableOf
    \/ ArrayOf
    \/ Assign
    \/ CallFromJS
    \/ CallFromJSON
    \/ CallToString
    \/ Take

SpecErrors == InitErrors /\ [][NextErrors]_vars

\* The programs that compare values.
NextEquals ==
    \/ NullableOf
    \/ OptionalOf
    \/ ArrayOf
    \/ ObjectOf
    \/ IntersectionOf
    \/ UnionOf
    \/ TupleOf
    \/ ShapeOf
    \/ Assign
    \/ CallEquals
    \/ Take

SpecEquals == Init /\ [][NextEquals]_vars

(***************************************************************************)
(* Notions the claims are stated in.                                       *)
(***************************************************************************)
Accepts(type, value) == isTypeOf(type, value) = Return(TRUE)

Rejects(type, value) == isTypeOf(type, value) = Return(FALSE)

\* The cast without the record of its calls.
Completion(r) ==
    IF Threw(r) THEN Throw(r.error) ELSE Return(r.value)

\* The kind of a value, read off the value itself.
Kind(value) ==
    CASE value.t \in {"string", "number", "boolean", "null", "undefined", "function"} -> value.t
      [] value.t = "array" -> "array"
      [] value.t = "object" ->
            IF value.proto = "Object.prototype" THEN "plain object" ELSE "instance"

\* The elements of an array: what its slots hold, a hole holding nothing.
ElementsOf(value) == {value.items[i] : i \in {j \in DOMAIN value.items : value.items[j] # Hole}}

RECURSIVE Uses(_, _, _)

\* The descriptor is built with the combinator `kind`, directly or through a reference.
Uses(kind, type, resolved) ==
    \/ type.kind = kind
    \/ CASE type.kind \in {"NullableOfType", "OptionalOfType"} -> Uses(kind, type.type, resolved)
         [] type.kind \in {"ArrayOfType", "ObjectOfType"} -> Uses(kind, type.valueType, resolved)
         [] type.kind \in {"IntersectionOfType", "UnionOfType"} ->
               Uses(kind, type.a, resolved) \/ Uses(kind, type.b, resolved)
         [] type.kind = "TupleOfType" ->
               \E i \in DOMAIN type.types : Uses(kind, type.types[i], resolved)
         [] type.kind = "ShapeOfType" ->
               \E i \in DOMAIN type.entries : Uses(kind, type.entries[i].type, resolved)
         [] type.kind = "ReferenceOfType" ->
               node # Undefined /\ ~resolved /\ Uses(kind, node, TRUE)
         [] OTHER -> FALSE

RECURSIVE Free(_, _, _, _)

\* A value that `type` accepts is not `sentinel`, and holds no `sentinel` at an
\* element, a map value, a tuple position or a declared key that `type` governs.
Free(sentinel, type, value, resolved) ==
    /\ value # sentinel
    /\ CASE type.kind = "NullableOfType" ->
               value = Null \/ Free(sentinel, type.type, value, resolved)
         [] type.kind = "OptionalOfType" ->
               value = Undefined \/ Free(sentinel, type.type, value, resolved)
         [] type.kind = "IntersectionOfType" ->
               \/ Accepts(type.a, value) /\ Free(sentinel, type.a, value, resolved)
               \/ Accepts(type.b, value) /\ Free(sentinel, type.b, value, resolved)
         [] type.kind = "UnionOfType" ->
               Free(sentinel, type.a, value, resolved) /\ Free(sentinel, type.b, value, resolved)
         [] type.kind = "ArrayOfType" ->
               value.t = "array" =>
                   \A e \in ElementsOf(value) : Free(sentinel, type.valueType, e, FALSE)
         [] type.kind = "ObjectOfType" ->
               Kind(value) = "plain object" =>
                   \A k \in DOMAIN value.props :
                       Free(sentinel, type.valueType, value.props[k], FALSE)
         [] type.kind = "TupleOfType" ->
               value.t = "array" =>
                   \A i \in DOMAIN type.types :
                       Free(sentinel, type.types[i], GetIndex(value, i - 1), FALSE)
         [] type.kind = "ShapeOfType" ->
               Kind(value) = "plain object" =>
                   \A i \in DOMAIN type.entries :
                       Free(sentinel, type.entries[i].type,
                            GetKey(value, type.entries[i].key), FALSE)
         [] type.kind = "ReferenceOfType" ->
               node # Undefined /\ ~resolved /\ Free(sentinel, node, value, TRUE)
         [] OTHER -> TRUE

(***************************************************************************)
(* The claims.                                                             *)
(***************************************************************************)

\* C1: for every descriptor (whose references resolve) and every value,
\* fromJS(value, type) returns the value itself when type.isTypeOf(value) is
\* true, and when it is false raises a ValueError whose message is "Expected "
\* followed by type.getName() and whose value is the rejected value.
C1_FromJSContract ==
    (outcome.op = "fromJS" /\ node # Undefined) =>
        /\ Accepts(root, outcome.value) =>
               Completion(outcome.result) = Return(outcome.value)
        /\ Rejects(root, outcome.value) =>
               /\ Threw(outcome.result)
               /\ outcome.result.error.class = "ValueError"
               /\ ~Threw(getName(root))
               /\ outcome.result.error.message = "Expected " \o getName(root).value
               /\ outcome.result.error.value = outcome.value

\* C2: for every text that is not well-formed JSON and every descriptor,
\* fromJSON(text, type) raises a ValueError whose message is "Invalid JSON" and
\* whose value is the raw text, and calls no method of the descriptor.
C2_InvalidJSON ==
    (outcome.op = "fromJSON" /\ Threw(JSONparse(outcome.value))) =>
        /\ Completion(outcome.result) = Throw(ValueError("Invalid JSON", outcome.value))
        /\ outcome.result.calls = <<>>

C2_Witness ==
    /\ outcome.op = "fromJSON"
    /\ outcome.value.lexemes # <<>>
    /\ Threw(JSONparse(outcome.value))
    /\ Threw(outcome.result)

\* C3: for every well-formed JSON text and every descriptor, fromJSON(text, type)
\* has exactly the outcome of fromJS(parse(text), type): the parsed value when the
\* descriptor accepts it, and a ValueError of fromJS unchanged, carrying the
\* parsed value and the message "Expected <name>", never "Invalid JSON".
C3_DelegatesToFromJS ==
    (outcome.op = "fromJSON" /\ ~Threw(JSONparse(outcome.value))) =>
        LET parsed == JSONparse(outcome.value).value
        IN /\ outcome.result = fromJS(parsed, root)
           /\ Accepts(root, parsed) => Completion(outcome.result) = Return(parsed)
           /\ (Threw(outcome.result) /\ outcome.result.error.class = "ValueError") =>
                  /\ outcome.result.error.value = parsed
                  /\ outcome.result.error.message # "Invalid JSON"
                  /\ outcome.result.error.message = "Expected " \o getName(root).value

C3_Witness ==
    /\ outcome.op = "fromJSON"
    /\ ~Threw(JSONparse(outcome.value))
    /\ Threw(outcome.result)
    /\ outcome.result.error.class = "ValueError"
    /\ outcome.result.error.value.t = "array"

\* C4: a descriptor built without nullableOf accepts no value that is null, or
\* holds null at an element, a map value, a tuple position or a declared shape
\* key it governs; and likewise for optionalOf and undefined.
C4_Strictness ==
    (outcome.op = "isTypeOf" /\ outcome.result = Return(TRUE)) =>
        /\ ~Uses("NullableOfType", root, FALSE) => Free(Null, root, outcome.value, FALSE)
        /\ ~Uses("OptionalOfType", root, FALSE) => Free(Undefined, root, outcome.value, FALSE)

C4_Witness ==
    /\ outcome.op = "isTypeOf"
    /\ outcome.result = Return(TRUE)
    /\ root.kind = "ShapeOfType"
    /\ root.entries[2].type.kind = "ArrayOfType"
    /\ ~Uses("NullableOfType", root, FALSE)
    /\ ~Uses("OptionalOfType", root, FALSE)
    /\ outcome.value.props["b"].items # <<>>

\* C5: for T among stringType, numberType, booleanType and every value v,
\* T.isTypeOf(v) is true if and only if the kind of v is the kind T declares.
C5_Primitives ==
    (outcome.op = "isTypeOf" /\ root \in {stringType, numberType, booleanType}) =>
        outcome.result = Return(Kind(outcome.value) = root.name)

C5_Witness ==
    /\ outcome.op = "isTypeOf"
    /\ root = numberType
    /\ outcome.value = Str("a")
    /\ outcome.result = Return(FALSE)

\* C6: nullableOf(T).isTypeOf(null) is true, and for every other value v
\* (undefined too) nullableOf(T).isTypeOf(v) is T.isTypeOf(v).
C6_NullableOf ==
    (outcome.op = "isTypeOf" /\ root.kind = "NullableOfType") =>
        IF outcome.value = Null
        THEN outcome.result = Return(TRUE)
        ELSE outcome.result = isTypeOf(root.type, outcome.value)

C6_Witness ==
    /\ outcome.op = "isTypeOf"
    /\ root.kind = "NullableOfType"
    /\ outcome.value = Undefined
    /\ outcome.result = Return(FALSE)

\* C7: optionalOf(T).isTypeOf(undefined) is true, and for every other value v
\* (null too) optionalOf(T).isTypeOf(v) is T.isTypeOf(v): optionalOf(T) accepts
\* null only if T does.
C7_OptionalOf ==
    (outcome.op = "isTypeOf" /\ root.kind = "OptionalOfType") =>
        IF outcome.value = Undefined
        THEN outcome.result = Return(TRUE)
        ELSE outcome.result = isTypeOf(root.type, outcome.value)

\* null is accepted by an optionalOf whose child is a nullableOf.
C7_Witness ==
    /\ outcome.op = "isTypeOf"
    /\ root.kind = "OptionalOfType"
    /\ root.type.kind = "NullableOfType"
    /\ outcome.value = Null
    /\ outcome.result = Return(TRUE)

\* C8: intersectionOf(a, b).isTypeOf(v) is true if and only if a.isTypeOf(v) or
\* b.isTypeOf(v) is true (for children whose isTypeOf returns).
C8_IntersectionOf ==
    (/\ outcome.op = "isTypeOf"
     /\ root.kind = "IntersectionOfType"
     /\ ~Threw(isTypeOf(root.a, outcome.value))
     /\ ~Threw(isTypeOf(root.b, outcome.value))) =>
        outcome.result =
            Return(Accepts(root.a, outcome.value) \/ Accepts(root.b, outcome.value))

C8_Witness ==
    /\ outcome.op = "isTypeOf"
    /\ root.kind = "IntersectionOfType"
    /\ Rejects(root.a, outcome.value)
    /\ Accepts(root.b, outcome.value)
    /\ outcome.result = Return(TRUE)

\* C9: unionOf(a, b).isTypeOf(v) is true if and only if a.isTypeOf(v) and
\* b.isTypeOf(v) are both true (for children whose isTypeOf returns).
C9_UnionOf ==
    (/\ outcome.op = "isTypeOf"
     /\ root.kind = "UnionOfType"
     /\ ~Threw(isTypeOf(root.a, outcome.value))
     /\ ~Threw(isTypeOf(root.b, outcome.value))) =>
        outcome.result =
            Return(Accepts(root.a, outcome.value) /\ Accepts(root.b, outcome.value))

\* A value that only one of the two children accepts is rejected.
C9_Witness ==
    /\ outcome.op = "isTypeOf"
    /\ root.kind = "UnionOfType"
    /\ Accepts(root.a, outcome.value)
    /\ Rejects(root.b, outcome.value)
    /\ outcome.result = Return(FALSE)

\* C10: arrayOf(T).isTypeOf(v) is true if and only if v is an array and T
\* accepts every element of v (for elements on which T.isTypeOf returns); so
\* the empty array is accepted and every non-array is rejected.
C10_ArrayOf ==
    (/\ outcome.op = "isTypeOf"
     /\ root.kind = "ArrayOfType"
     /\ outcome.value.t = "array" =>
            \A e \in ElementsOf(outcome.value) : ~Threw(isTypeOf(root.valueType, e))) =>
        outcome.result =
            Return(/\ outcome.value.t = "array"
                   /\ \A e \in ElementsOf(outcome.value) : Accepts(root.valueType, e))

C10_Witness ==
    /\ outcome.op = "isTypeOf"
    /\ root.kind = "ArrayOfType"
    /\ outcome.value.t = "array"
    /\ Len(outcome.value.items) = 2
    /\ \E e \in ElementsOf(outcome.value) : Rejects(root.valueType, e)
    /\ \E e \in ElementsOf(outcome.value) : Accepts(root.valueType, e)
    /\ outcome.result = Return(FALSE)

\* C11: objectOf(T).isTypeOf(v) is true if and only if v is a plain object
\* (not an array, not null, not a primitive, not a class instance) and T accepts
\* the value of every own key of v (for values on which T.isTypeOf returns):
\* an inherited entry is not inspected and the empty object is accepted.
C11_ObjectOf ==
    (/\ outcome.op = "isTypeOf"
     /\ root.kind = "ObjectOfType"
     /\ Kind(outcome.value) = "plain object" =>
            \A k \in DOMAIN outcome.value.props :
                ~Threw(isTypeOf(root.valueType, outcome.value.props[k]))) =>
        /\ outcome.result =
               Return(/\ Kind(outcome.value) = "plain object"
                      /\ \A k \in DOMAIN outcome.value.props :
                             Accepts(root.valueType, outcome.value.props[k]))
        /\ outcome.value = Obj(<<>>) => outcome.result = Return(TRUE)

\* An object that is not plain is rejected though T accepts its only value.
C11_Witness ==
    /\ outcome.op = "isTypeOf"
    /\ root.kind = "ObjectOfType"
    /\ Kind(outcome.value) = "instance"
    /\ \A k \in DOMAIN outcome.value.props :
           Accepts(root.valueType, outcome.value.props[k])
    /\ outcome.result = Return(FALSE)

\* The first Len(types) reads v[0], v[1], ... of an array.
Declared(type, value) == [i \in DOMAIN type.types |-> GetIndex(value, i - 1)]

\* C12: tupleOf(types).isTypeOf(v) is true if and only if v is an array and
\* types[i] accepts v[i] for every declared index i (for children whose isTypeOf
\* returns): two arrays that agree on the declared indices get the same answer,
\* and an array shorter than the arity is rejected when the descriptor of a
\* missing position rejects undefined.
C12_TupleOf ==
    (/\ outcome.op = "isTypeOf"
     /\ root.kind = "TupleOfType"
     /\ outcome.value.t = "array" =>
            \A i \in DOMAIN root.types :
                ~Threw(isTypeOf(root.types[i], GetIndex(outcome.value, i - 1)))) =>
        /\ outcome.result =
               Return(/\ outcome.value.t = "array"
                      /\ \A i \in DOMAIN root.types :
                             Accepts(root.types[i], GetIndex(outcome.value, i - 1)))
        /\ outcome.value.t = "array" =>
               /\ \A other \in {w \in Values : w.t = "array"} :
                      Declared(root, other) = Declared(root, outcome.value) =>
                          isTypeOf(root, other) = outcome.result
               /\ (\E i \in DOMAIN root.types :
                       /\ i > Len(outcome.value.items)
                       /\ Rejects(root.types[i], Undefined)) =>
                      outcome.result = Return(FALSE)

\* An array longer than the arity is accepted like its declared part.
C12_Witness ==
    /\ outcome.op = "isTypeOf"
    /\ root.kind = "TupleOfType"
    /\ outcome.value.t = "array"
    /\ Len(outcome.value.items) > Len(root.types)
    /\ outcome.result = Return(TRUE)

\* C13: shapeOf(types).isTypeOf(v) is true if and only if v is a plain object
\* and types[k] accepts v[k] for every declared key k (for children whose
\* isTypeOf returns), and every declared key is mandatory: if a declared key is
\* not a key of v and its descriptor rejects undefined, v is rejected.
C13_ShapeOf ==
    (/\ outcome.op = "isTypeOf"
     /\ root.kind = "ShapeOfType"
     /\ Kind(outcome.value) = "plain object" =>
            \A i \in DOMAIN root.entries :
                ~Threw(isTypeOf(root.entries[i].type,
                                GetKey(outcome.value, root.entries[i].key)))) =>
        /\ outcome.result =
               Return(/\ Kind(outcome.value) = "plain object"
                      /\ \A i \in DOMAIN root.entries :
                             Accepts(root.entries[i].type,
                                     GetKey(outcome.value, root.entries[i].key)))
        /\ (/\ Kind(outcome.value) = "plain object"
            /\ \E i \in DOMAIN root.entries :
                   /\ root.entries[i].key \notin DOMAIN outcome.value.props
                   /\ Rejects(root.entries[i].type, Undefined)) =>
               outcome.result = Return(FALSE)
        /\ Kind(outcome.value) = "plain object" =>
               \A other \in {w \in Values : Kind(w) = "plain object"} :
                   (\A i \in DOMAIN root.entries :
                        GetKey(other, root.entries[i].key)
                            = GetKey(outcome.value, root.entries[i].key)) =>
                       isTypeOf(root, other) = outcome.result

RECURSIVE Resolves(_, _)

\* The calls type.isTypeOf makes on the very value it was given come to an
\* end: no reference is reached again before a container has taken the value
\* apart, and every reference reached has its target.
Resolves(type, resolved) ==
    CASE type.kind = "ReferenceOfType" ->
             node # Undefined /\ ~resolved /\ Resolves(node, TRUE)
      [] type.kind \in {"NullableOfType", "OptionalOfType"} -> Resolves(type.type, resolved)
      [] type.kind \in {"IntersectionOfType", "UnionOfType"} ->
             Resolves(type.a, resolved) /\ Resolves(type.b, resolved)
      [] OTHER -> TRUE

\* The descriptor in `root` meets what the library asks of resolvers: every
\* reference has a target, and every cycle passes through a container.
WellFormed ==
    IF node = Undefined THEN ~Uses("ReferenceOfType", root, FALSE)
    ELSE Resolves(root, FALSE) /\ Resolves(node, FALSE)

\* A descriptor that reaches itself through a reference.
SelfReferential == node # Undefined /\ Uses("ReferenceOfType", node, TRUE)

RECURSIVE ValueDepth(_)

\* The nesting depth of a value: 0 for a value that is not a container.
ValueDepth(value) ==
    CASE value.t = "array" -> 1 + Max({0} \cup {ValueDepth(e) : e \in ElementsOf(value)})
      [] value.t = "object" ->
            1 + Max({0} \cup {ValueDepth(value.props[k]) : k \in DOMAIN value.props})
      [] OTHER -> 0

\* The callbacks that every(...) calls: each one up to the first that is not true.
Called(results) ==
    {i \in DOMAIN results : \A j \in DOMAIN results : j < i => results[j] = Return(TRUE)}

RECURSIVE Resolutions(_, _, _)

\* The most calls of ReferenceOfType.isTypeOf that are on the stack at once
\* while type.isTypeOf(value) runs.
Resolutions(type, value, resolved) ==
    CASE type.kind = "ReferenceOfType" ->
             IF node = Undefined \/ resolved THEN 1
             ELSE 1 + Resolutions(node, value, TRUE)
      [] type.kind = "NullableOfType" ->
             IF value = Null THEN 0 ELSE Resolutions(type.type, value, resolved)
      [] type.kind = "OptionalOfType" ->
             IF value = Undefined THEN 0 ELSE Resolutions(type.type, value, resolved)
      [] type.kind \in {"IntersectionOfType", "UnionOfType"} ->
             LET a == IsTypeOf(type.a, value, resolved)
                 decided == Threw(a) \/ (a.value <=> type.kind = "IntersectionOfType")
             IN Max({Resolutions(type.a, value, resolved)}
                    \cup (IF decided THEN {} ELSE {Resolutions(type.b, value, resolved)}))
      [] type.kind = "ArrayOfType" /\ IsArray(value) ->
             LET results == [i \in {j \in DOMAIN value.items : value.items[j] # Hole} |->
                                IsTypeOf(type.valueType, value.items[i], FALSE)]
             IN Max({0} \cup {Resolutions(type.valueType, value.items[i], FALSE) :
                                 i \in Called(results)})
      [] type.kind = "ObjectOfType" /\ isPlainObject(value) ->
             LET keys == OwnKeys(value.props)
                 results == [i \in DOMAIN keys |->
                                IsTypeOf(type.valueType, value.props[keys[i]], FALSE)]
             IN Max({0} \cup {Resolutions(type.valueType, value.props[keys[i]], FALSE) :
                                 i \in Called(results)})
      [] type.kind = "TupleOfType" /\ IsArray(value) ->
             LET results == [i \in DOMAIN type.types |->
                                IsTypeOf(type.types[i], GetIndex(value, i - 1), FALSE)]
             IN Max({0} \cup {Resolutions(type.types[i], GetIndex(value, i - 1), FALSE) :
                                 i \in Called(results)})
      [] type.kind = "ShapeOfType" /\ isPlainObject(value) ->
             LET results == [i \in DOMAIN type.entries |->
                                IsTypeOf(type.entries[i].type,
                                         GetKey(value, type.entries[i].key), FALSE)]
             IN Max({0} \cup {Resolutions(type.entries[i].type,
                                          GetKey(value, type.entries[i].key), FALSE) :
                                 i \in Called(results)})
      [] OTHER -> 0

\* C14: referenceOf(getType).isTypeOf(v) is getType().isTypeOf(v), the resolver
\* being called at each call: before the target is assigned the call fails on
\* the missing target, and from the assignment on the reference, though built
\* earlier, answers as the target does.
C14_ReferenceOf ==
    (outcome.op = "isTypeOf" /\ root.kind = "ReferenceOfType") =>
        outcome.result =
            IF node = Undefined THEN Throw(TypeError) ELSE isTypeOf(node, outcome.value)

\* A target that holds a reference built before the target existed.
C14_Witness ==
    /\ outcome.op = "isTypeOf"
    /\ root.kind = "ReferenceOfType"
    /\ SelfReferential
    /\ node.kind = "ShapeOfType"
    /\ outcome.value = Tree1
    /\ outcome.result = Return(TRUE)
    /\ Rejects(node, Tree0.props["b"])

\* C15: for a self-referential descriptor whose cycles pass through a
\* container, such as node = shapeOf({a: numberType, b: arrayOf(referenceOf(() =>
\* node))}), isTypeOf returns a boolean for every value, and the calls of the
\* resolver on the stack never number more than the nesting depth of the value
\* plus one.
C15_Terminates ==
    (outcome.op = "isTypeOf" /\ SelfReferential /\ WellFormed) =>
        /\ outcome.result \in {Return(TRUE), Return(FALSE)}
        /\ Resolutions(root, outcome.value, FALSE) <= ValueDepth(outcome.value) + 1

\* The tree of three levels is validated through three nested resolutions.
C15_Witness ==
    /\ outcome.op = "isTypeOf"
    /\ SelfReferential
    /\ WellFormed
    /\ node = shapeOf(<<Entry("a", numberType), Entry("b", arrayOf(referenceOf))>>)
    /\ outcome.value = Tree2
    /\ outcome.result = Return(TRUE)
    /\ Resolutions(root, outcome.value, FALSE) = 3

\* C16: for every well-formed descriptor, a self-referential one included,
\* getName returns a name, and fromJS of a value the descriptor rejects raises
\* the ValueError that carries "Expected " and that name, and the value.
C16_CyclicName ==
    WellFormed =>
        /\ outcome.op = "getName" => ~Threw(outcome.result)
        /\ (outcome.op = "fromJS" /\ Rejects(root, outcome.value)) =>
               /\ ~Threw(getName(root))
               /\ Completion(outcome.result) =
                      Throw(ValueError("Expected " \o getName(root).value, outcome.value))

\* The placeholder name of a reference: the one-character string HORIZONTAL
\* ELLIPSIS (U+2026), written here with three full stops.  No name that the
\* descriptors put together can be mistaken for it.
Ellipsis == "..."

\* C17: referenceOf(getType).getName() is the placeholder, whatever the name
\* of the descriptor that getType returns.
C17_ReferenceName ==
    (outcome.op = "getName" /\ root.kind = "ReferenceOfType" /\ node # Undefined) =>
        outcome.result = Return(Ellipsis)

\* C18: isTypeOf of every well-formed descriptor returns true or false on
\* every value, null, undefined, a value of the wrong kind and an object with
\* excess or missing keys included: it never raises, and its answer is the one
\* the descriptor and the value determine.
C18_Total ==
    (outcome.op = "isTypeOf" /\ WellFormed) =>
        /\ outcome.result \in {Return(TRUE), Return(FALSE)}
        /\ outcome.result = isTypeOf(root, outcome.value)

\* null, given to a shape, is rejected without an error.
C18_Witness ==
    /\ outcome.op = "isTypeOf"
    /\ WellFormed
    /\ root.kind = "ShapeOfType"
    /\ outcome.value = Null
    /\ outcome.result = Return(FALSE)

RECURSIVE Structure(_)

\* The content of a value, the prototype of an object left aside.
Structure(value) ==
    CASE value.t = "array" ->
             [t |-> "array", items |-> [i \in DOMAIN value.items |-> Structure(value.items[i])]]
      [] value.t = "object" ->
             [t |-> "object",
              props |-> [k \in DOMAIN value.props |-> Structure(value.props[k])]]
      [] OTHER -> value

RECURSIVE Representable(_)

\* A value JSON has a text for: null, a boolean, a finite number, a string, an
\* array without holes or a plain object, of such values.
Representable(value) ==
    CASE value.t \in {"null", "boolean", "string"} -> TRUE
      [] value.t = "number" -> value.n # "NaN"
      [] value.t = "array" ->
             \A i \in DOMAIN value.items : Representable(value.items[i])
      [] value.t = "object" ->
             /\ value.proto = "Object.prototype"
             /\ \A k \in DOMAIN value.props : Representable(value.props[k])
      [] OTHER -> FALSE

\* C19 as stated: for every value the descriptor accepts,
\* fromJSON(JSON.stringify(v), D) returns a value with the content of v, also
\* where v holds undefined or a number that is not finite.
C19_RoundTrip ==
    (outcome.op = "roundTrip" /\ Accepts(root, outcome.value)) =>
        /\ ~Threw(outcome.result)
        /\ Structure(outcome.result.value) = Structure(outcome.value)

\* C19 as amended: for every value the descriptor accepts and JSON has a
\* text for, fromJSON(JSON.stringify(v), D) returns a value equal to v.
C19_RoundTripRepresentable ==
    (outcome.op = "roundTrip" /\ Accepts(root, outcome.value)
        /\ Representable(outcome.value)) =>
        /\ outcome.text # Undefined
        /\ Completion(outcome.result) = Return(outcome.value)

\* An array that holds null under nullableOf comes back as it was.
C19_Witness ==
    /\ outcome.op = "roundTrip"
    /\ root = arrayOf(nullableOf(stringType))
    /\ outcome.value = Arr(<<Null, Str("a")>>)
    /\ Completion(outcome.result) = Return(outcome.value)

\* C20: anyType.isTypeOf(v) is false for null and for undefined and true for
\* every other value, the empty string, 0, false, the empty array and the
\* empty object among them.
C20_AnyType ==
    (outcome.op = "isTypeOf" /\ root = anyType) =>
        outcome.result = Return(outcome.value \notin {Null, Undefined})

C20_Witness ==
    /\ outcome.op = "isTypeOf"
    /\ root = anyType
    /\ outcome.value \in {Str(""), Num("0"), Bool(FALSE), Arr(<<>>), Obj(<<>>)}
    /\ outcome.result = Return(TRUE)

\* C21: every descriptor has equals; equals(v, v) is true for every value v
\* the descriptor accepts, and equals(a, b) is equals(b, a) for all values a, b
\* it accepts.
C21_EqualsReflexiveSymmetric ==
    outcome.op = "equals" =>
        /\ outcome.same => outcome.result = Return(TRUE)
        /\ outcome.result = equals(root, outcome.b, outcome.a, outcome.same)

\* C22: for intersectionOf(a, b) and two values x, y it accepts, equals(x, y)
\* is the answer of a child that accepts both x and y, and false when no
\* single child accepts both.
C22_IntersectionEquals ==
    (outcome.op = "equals" /\ root.kind = "IntersectionOfType") =>
        LET deciding == {child \in {root.a, root.b} :
                            Accepts(child, outcome.a) /\ Accepts(child, outcome.b)}
        IN IF deciding = {} THEN outcome.result = Return(FALSE)
           ELSE \E child \in deciding :
                    outcome.result = equals(child, outcome.a, outcome.b, outcome.same)

\* Two arrays with equal content that are not the same array: the second
\* child, a primitive, would tell them apart; the first compares them.
C22_Witness ==
    /\ outcome.op = "equals"
    /\ root.kind = "IntersectionOfType"
    /\ root.a.kind = "ArrayOfType"
    /\ outcome.a = Arr(<<Str("a")>>)
    /\ outcome.b = outcome.a
    /\ ~outcome.same
    /\ outcome.result = Return(TRUE)

\* Each of the two values is accepted by one child only, and not the same one.
C22_WitnessApart ==
    /\ outcome.op = "equals"
    /\ root.kind = "IntersectionOfType"
    /\ Accepts(root.a, outcome.a) /\ Rejects(root.a, outcome.b)
    /\ Rejects(root.b, outcome.a) /\ Accepts(root.b, outcome.b)
    /\ outcome.result = Return(FALSE)

\* C23: for arrayOf(T) and two arrays x, y it accepts, equals(x, y) is true if
\* and only if x and y have the same length and T.equals(x[i], y[i]) is true
\* at every index i; two empty arrays are equal.
C23_ArrayEquals ==
    (outcome.op = "equals" /\ root.kind = "ArrayOfType") =>
        LET x == outcome.a
            y == outcome.b
        IN /\ outcome.result =
                  Return(/\ Len(x.items) = Len(y.items)
                         /\ \A i \in DOMAIN x.items :
                                equals(root.valueType, GetIndex(x, i - 1), GetIndex(y, i - 1),
                                       outcome.same) = Return(TRUE))
           /\ (x = Arr(<<>>) /\ y = Arr(<<>>)) => outcome.result = Return(TRUE)

\* A longer array that begins with the elements of a shorter one is not equal to it.
C23_Witness ==
    /\ outcome.op = "equals"
    /\ root.kind = "ArrayOfType"
    /\ outcome.a = Arr(<<Str("a")>>)
    /\ outcome.b = Arr(<<Str("a"), Str("a")>>)
    /\ outcome.result = Return(FALSE)

EndsWith(s, suffix) ==
    Len(s) >= Len(suffix) /\ SubSeq(s, Len(s) - Len(suffix) + 1, Len(s)) = suffix

\* C24: for every ValueError built with message m and value v, the description
\* is m followed by " (received " + JSON.stringify(v) + ")".
C24_Description ==
    outcome.op = "toString" =>
        outcome.result =
            outcome.error.message \o " (received " \o Received(outcome.error.value) \o ")"

\* C24, amended: the description ends with m followed by " (received " +
\* JSON.stringify(v) + ")"; what stands before m is the name of the error and
\* ": ", or nothing.  fromJS([1], arrayOf(stringType)) reports a description
\* that ends with "Expected Array<string> (received [1])", and fromJSON("[", ...)
\* one that ends with 'Invalid JSON (received "[")'.
C24_DescriptionEnds ==
    outcome.op = "toString" =>
        LET tail == outcome.error.message \o " (received "
                        \o Received(outcome.error.value) \o ")"
        IN /\ EndsWith(outcome.result, tail)
           /\ \E name \in ErrorNames :
                  outcome.result = (IF name = "" THEN "" ELSE name \o ": ") \o tail
           /\ (root = arrayOf(stringType) /\ outcome.error.value = Arr(<<Num("1")>>)) =>
                  EndsWith(outcome.result, "Expected Array<string> (received [1])")
           /\ outcome.error.value = Text(<<"[">>) =>
                  EndsWith(outcome.result, "Invalid JSON (received \"[\")")

C24_Witness ==
    /\ outcome.op = "toString"
    /\ root = arrayOf(stringType)
    /\ outcome.error.value = Arr(<<Num("1")>>)
    /\ outcome.result = "ValueError: Expected Array<string> (received [1])"

\* C27: fromJSON raises the "Invalid JSON" ValueError only when the text is not
\* well-formed JSON: a failure after a successful parse, in type.isTypeOf or
\* type.getName, is never reported as "Invalid JSON" with the raw text.
C27_InvalidJSONOnlyForMalformed ==
    (outcome.op = "fromJSON" /\ Threw(outcome.result)
        /\ outcome.result.error.class = "ValueError"
        /\ outcome.result.error.message = "Invalid JSON") =>
            Threw(JSONparse(outcome.value))

RECURSIVE Joined(_)

\* The strings with ", " between them.
Joined(strings) ==
    IF strings = <<>> THEN ""
    ELSE IF Len(strings) = 1 THEN Head(strings)
    ELSE Head(strings) \o ", " \o Joined(Tail(strings))

\* C25: the name of a built-in descriptor is a fixed function of its children's
\* names: arrayOf gives "Array<n>", objectOf "Object<n>", tupleOf "[n1, n2]",
\* shapeOf "{k1: n1, k2: n2}" with the keys in declaration order, intersectionOf
\* "n1 | n2", unionOf "n1 & n2", optionalOf "n?", and nullableOf the child's
\* name with no suffix (for children that have a name).
C25_Names ==
    outcome.op = "getName" =>
        LET Named(t) == ~Threw(getName(t))
            n(t) == getName(t).value
            Is(children, name) ==
                (\A i \in DOMAIN children : Named(children[i])) => outcome.result = Return(name)
        IN CASE root.kind = "ArrayOfType" ->
                    Is(<<root.valueType>>, "Array<" \o n(root.valueType) \o ">")
             [] root.kind = "ObjectOfType" ->
                    Is(<<root.valueType>>, "Object<" \o n(root.valueType) \o ">")
             [] root.kind = "TupleOfType" ->
                    Is(root.types,
                       "[" \o Joined([i \in DOMAIN root.types |-> n(root.types[i])]) \o "]")
             [] root.kind = "ShapeOfType" ->
                    Is([i \in DOMAIN root.entries |-> root.entries[i].type],
                       "{" \o Joined([i \in DOMAIN root.entries |->
                                         root.entries[i].key \o ": "
                                             \o n(root.entries[i].type)])
                           \o "}")
             [] root.kind = "IntersectionOfType" ->
                    Is(<<root.a, root.b>>, n(root.a) \o " | " \o n(root.b))
             [] root.kind = "UnionOfType" ->
                    Is(<<root.a, root.b>>, n(root.a) \o " & " \o n(root.b))
             [] root.kind = "OptionalOfType" -> Is(<<root.type>>, n(root.type) \o "?")
             [] root.kind = "NullableOfType" -> Is(<<root.type>>, n(root.type))
             [] OTHER -> TRUE

\* A shape over a nullable: the keys in declaration order, no suffix for null.
C25_Witness ==
    /\ outcome.op = "getName"
    /\ root.kind = "ShapeOfType"
    /\ root.entries[2].type.kind = "NullableOfType"
    /\ outcome.result = Return("{a: number, b: string}")

\* C26: a call of isTypeOf or fromJS changes neither the descriptor nor what a
\* reference resolves to, so that later calls find the descriptor as it was,
\* and what fromJS returns is the very value it was given.
C26_Frame ==
    [][(outcome.op = "none" /\ outcome'.op \in {"isTypeOf", "fromJS"}) =>
          /\ root' = root
          /\ node' = node
          /\ (outcome'.op = "fromJS" /\ ~Threw(outcome'.result)) =>
                 outcome'.result.value = outcome'.value]_vars

\* A class instance has no JSON text that gives it back: a copy would differ.
C26_Witness ==
    /\ outcome.op = "fromJS"
    /\ outcome.value = Instance([a |-> Str("a")])
    /\ Completion(outcome.result) = Return(outcome.value)

\* C28: when arrayOf(T) accepts an array, T accepts v[i] at every index i of
\* the array, the indices that hold no element (which read undefined)
\* included, and tupleOf of as many T accepts the array too.
C28_EveryIndex ==
    (outcome.op = "isTypeOf" /\ root.kind = "ArrayOfType"
        /\ outcome.result = Return(TRUE)) =>
        /\ \A i \in DOMAIN outcome.value.items :
               Accepts(root.valueType, GetIndex(outcome.value, i - 1))
        /\ Accepts(tupleOf([i \in DOMAIN outcome.value.items |-> root.valueType]),
                   outcome.value)

\* C29: shapeOf rejects a plain object when a declared key is not an own key
\* of the object and the type of that key rejects undefined, also when the
\* key is the name of something every object inherits.
C29_MissingKey ==
    (outcome.op = "isTypeOf" /\ root.kind = "ShapeOfType"
        /\ Kind(outcome.value) = "plain object"
        /\ \E i \in DOMAIN root.entries :
               /\ root.entries[i].key \notin DOMAIN outcome.value.props
               /\ Rejects(root.entries[i].type, Undefined)) =>
        outcome.result # Return(TRUE)

C30_WitnessUnion ==
    /\ outcome.op = "isTypeOf"
    /\ root.kind = "UnionOfType"
    /\ outcome.result = Return(TRUE)

====
